---------------------------- MODULE Spec2Model ----------------------------
(***************************************************************************)
(* Model of the /query handler of src/main.py (create_query): the client   *)
(* availability check, the classification call, the ordered routing over   *)
(* the classifier's analysis text, the marker-based parameter extraction,  *)
(* the cluster call and the formatting of the answer.                      *)
(*                                                                         *)
(* Python strings are modelled as sequences of one-character strings, so   *)
(* that `in`, split and strip are computed as Python computes them.        *)
(***************************************************************************)
EXTENDS Integers, Sequences, FiniteSets, TLC

\* substrings tested by the routing rules (lines 68-117)
\* "pods"
s_pods ==
    <<"p","o","d","s">>
\* "default namespace"
s_default_namespace ==
    <<"d","e","f","a","u","l","t"," ","n","a","m","e","s","p","a","c","e">>
\* "nodes"
s_nodes ==
    <<"n","o","d","e","s">>
\* "status of the pod"
s_status_of_the_pod ==
    <<"s","t","a","t","u","s"," ","o","f"," ","t","h","e"," ","p","o","d">>
\* "deployments"
s_deployments ==
    <<"d","e","p","l","o","y","m","e","n","t","s">>
\* "services"
s_services ==
    <<"s","e","r","v","i","c","e","s">>
\* "logs of the pod"
s_logs_of_the_pod ==
    <<"l","o","g","s"," ","o","f"," ","t","h","e"," ","p","o","d">>
\* "namespaces"
s_namespaces ==
    <<"n","a","m","e","s","p","a","c","e","s">>
\* "describe the deployment"
s_describe_the_deployment ==
    <<"d","e","s","c","r","i","b","e"," ","t","h","e"," ","d","e","p","l","o","y","m","e","n","t">>
\* "names of the nodes"
s_names_of_the_nodes ==
    <<"n","a","m","e","s"," ","o","f"," ","t","h","e"," ","n","o","d","e","s">>
\* "resource quota"
s_resource_quota ==
    <<"r","e","s","o","u","r","c","e"," ","q","u","o","t","a">>
\* "Running"
s_Running ==
    <<"R","u","n","n","i","n","g">>
\* "label"
s_label ==
    <<"l","a","b","e","l">>
\* marker phrases of the parameter extraction (lines 76, 91, 101, 118)
\* "pod named "
m_pod_named ==
    <<"p","o","d"," ","n","a","m","e","d"," ">>
\* "deployment named "
m_deployment_named ==
    <<"d","e","p","l","o","y","m","e","n","t"," ","n","a","m","e","d"," ">>
\* "label "
m_label ==
    <<"l","a","b","e","l"," ">>
\* answer templates (lines 67-120)
\* "Query not recognized."
a_not_recognized ==
    <<"Q","u","e","r","y"," ","n","o","t"," ","r","e","c","o","g","n","i","z","e","d",".">>
\* "There are "
a_there_are ==
    <<"T","h","e","r","e"," ","a","r","e"," ">>
\* " pods in the default namespace."
a_pods_in_default ==
    <<" ","p","o","d","s"," ","i","n"," ","t","h","e"," ","d","e","f","a","u","l","t"," ","n","a","m","e","s","p","a","c","e",".">>
\* " nodes in the cluster."
a_nodes_in_cluster ==
    <<" ","n","o","d","e","s"," ","i","n"," ","t","h","e"," ","c","l","u","s","t","e","r",".">>
\* "The status of the pod '"
a_status_of_pod ==
    <<"T","h","e"," ","s","t","a","t","u","s"," ","o","f"," ","t","h","e"," ","p","o","d"," ","'">>
\* "' is "
a_is ==
    <<"'"," ","i","s"," ">>
\* "."
a_dot ==
    <<".">>
\* "Pod name not provided in the query."
a_pod_name_not_provided ==
    <<"P","o","d"," ","n","a","m","e"," ","n","o","t"," ","p","r","o","v","i","d","e","d"," ","i","n"," ","t","h","e"," ","q","u","e","r","y",".">>
\* "Pod '"
a_pod ==
    <<"P","o","d"," ","'">>
\* "' not found in the default namespace."
a_not_found_in_default ==
    <<"'"," ","n","o","t"," ","f","o","u","n","d"," ","i","n"," ","t","h","e"," ","d","e","f","a","u","l","t"," ","n","a","m","e","s","p","a","c","e",".">>
\* " deployments in the default namespace."
a_deployments_in_default ==
    <<" ","d","e","p","l","o","y","m","e","n","t","s"," ","i","n"," ","t","h","e"," ","d","e","f","a","u","l","t"," ","n","a","m","e","s","p","a","c","e",".">>
\* " services in the default namespace."
a_services_in_default ==
    <<" ","s","e","r","v","i","c","e","s"," ","i","n"," ","t","h","e"," ","d","e","f","a","u","l","t"," ","n","a","m","e","s","p","a","c","e",".">>
\* "Logs for pod '"
a_logs_for_pod ==
    <<"L","o","g","s"," ","f","o","r"," ","p","o","d"," ","'">>
\* "':\n"
a_colon_nl ==
    <<"'",":","\n">>
\* "..."
a_ellipsis ==
    <<".",".",".">>
\* "Could not fetch logs for pod '"
a_could_not_fetch_logs ==
    <<"C","o","u","l","d"," ","n","o","t"," ","f","e","t","c","h"," ","l","o","g","s"," ","f","o","r"," ","p","o","d"," ","'">>
\* "'."
a_quote_dot ==
    <<"'",".">>
\* " namespaces in the cluster."
a_namespaces_in_cluster ==
    <<" ","n","a","m","e","s","p","a","c","e","s"," ","i","n"," ","t","h","e"," ","c","l","u","s","t","e","r",".">>
\* "Deployment '"
a_deployment ==
    <<"D","e","p","l","o","y","m","e","n","t"," ","'">>
\* "':\nReplicas: "
a_replicas ==
    <<"'",":","\n","R","e","p","l","i","c","a","s",":"," ">>
\* ", Strategy: "
a_strategy ==
    <<","," ","S","t","r","a","t","e","g","y",":"," ">>
\* "Could not describe deployment '"
a_could_not_describe ==
    <<"C","o","u","l","d"," ","n","o","t"," ","d","e","s","c","r","i","b","e"," ","d","e","p","l","o","y","m","e","n","t"," ","'">>
\* "Nodes in the cluster: "
a_nodes_list ==
    <<"N","o","d","e","s"," ","i","n"," ","t","h","e"," ","c","l","u","s","t","e","r",":"," ">>
\* ", "
a_comma_space ==
    <<","," ">>
\* "Resource quota for default namespace:\n"
a_quota_for_default ==
    <<"R","e","s","o","u","r","c","e"," ","q","u","o","t","a"," ","f","o","r"," ","d","e","f","a","u","l","t"," ","n","a","m","e","s","p","a","c","e",":","\n">>
\* "No resource quota set."
a_no_quota ==
    <<"N","o"," ","r","e","s","o","u","r","c","e"," ","q","u","o","t","a"," ","s","e","t",".">>
\* " Running pods in the default namespace."
a_running_pods ==
    <<" ","R","u","n","n","i","n","g"," ","p","o","d","s"," ","i","n"," ","t","h","e"," ","d","e","f","a","u","l","t"," ","n","a","m","e","s","p","a","c","e",".">>
\* " pods with label '"
a_pods_with_label ==
    <<" ","p","o","d","s"," ","w","i","t","h"," ","l","a","b","e","l"," ","'">>
\* "' in the default namespace."
a_in_default ==
    <<"'"," ","i","n"," ","t","h","e"," ","d","e","f","a","u","l","t"," ","n","a","m","e","s","p","a","c","e",".">>
\* entity names, phases and other values the cluster client returns
\* "web-1"
n_web1 ==
    <<"w","e","b","-","1">>
\* "db"
n_db ==
    <<"d","b">>
\* "Pending"
p_Pending ==
    <<"P","e","n","d","i","n","g">>
\* "RollingUpdate"
t_RollingUpdate ==
    <<"R","o","l","l","i","n","g","U","p","d","a","t","e">>
\* "Recreate"
t_Recreate ==
    <<"R","e","c","r","e","a","t","e">>
\* "{'cpu': '1'}"
h_cpu ==
    <<"{","'","c","p","u","'",":"," ","'","1","'","}">>
\* "started\nready"
l_started ==
    <<"s","t","a","r","t","e","d","\n","r","e","a","d","y">>
\* raw queries of the requests
\* "status of the pod named 'web-1'?"
q_status_web1 ==
    <<"s","t","a","t","u","s"," ","o","f"," ","t","h","e"," ","p","o","d"," ","n","a","m","e","d"," ","'","w","e","b","-","1","'","?">>
\* "pod named "
q_pod_named_only ==
    <<"p","o","d"," ","n","a","m","e","d"," ">>
\* "pod named ''?"
q_pod_named_quotes ==
    <<"p","o","d"," ","n","a","m","e","d"," ","'","'","?">>
\* "pod named 'web-1' please"
q_web1_please ==
    <<"p","o","d"," ","n","a","m","e","d"," ","'","w","e","b","-","1","'"," ","p","l","e","a","s","e">>
\* "which pods?"
q_which_pods ==
    <<"w","h","i","c","h"," ","p","o","d","s","?">>
\* "deployment named \"api\""
q_deployment_api ==
    <<"d","e","p","l","o","y","m","e","n","t"," ","n","a","m","e","d"," ","\"","a","p","i","\"">>
\* "deployment named ?"
q_deployment_blank ==
    <<"d","e","p","l","o","y","m","e","n","t"," ","n","a","m","e","d"," ","?">>
\* "pods with label app=web"
q_label_app ==
    <<"p","o","d","s"," ","w","i","t","h"," ","l","a","b","e","l"," ","a","p","p","=","w","e","b">>
\* "label "
q_label_blank ==
    <<"l","a","b","e","l"," ">>
\* contents returned by the classifier
\* "there are 3 pods in the default namespace"
c_pods_default ==
    <<"t","h","e","r","e"," ","a","r","e"," ","3"," ","p","o","d","s"," ","i","n"," ","t","h","e"," ","d","e","f","a","u","l","t"," ","n","a","m","e","s","p","a","c","e">>
\* "show me the names of the nodes"
c_names_of_nodes ==
    <<"s","h","o","w"," ","m","e"," ","t","h","e"," ","n","a","m","e","s"," ","o","f"," ","t","h","e"," ","n","o","d","e","s">>
\* " the status of the pod\n"
c_status ==
    <<" ","t","h","e"," ","s","t","a","t","u","s"," ","o","f"," ","t","h","e"," ","p","o","d","\n">>
\* "deployments in the default namespace"
c_deployments ==
    <<"d","e","p","l","o","y","m","e","n","t","s"," ","i","n"," ","t","h","e"," ","d","e","f","a","u","l","t"," ","n","a","m","e","s","p","a","c","e">>
\* "services in the default namespace"
c_services ==
    <<"s","e","r","v","i","c","e","s"," ","i","n"," ","t","h","e"," ","d","e","f","a","u","l","t"," ","n","a","m","e","s","p","a","c","e">>
\* "logs of the pod"
c_logs ==
    <<"l","o","g","s"," ","o","f"," ","t","h","e"," ","p","o","d">>
\* "list namespaces"
c_namespaces ==
    <<"l","i","s","t"," ","n","a","m","e","s","p","a","c","e","s">>
\* "describe the deployment"
c_describe ==
    <<"d","e","s","c","r","i","b","e"," ","t","h","e"," ","d","e","p","l","o","y","m","e","n","t">>
\* "resource quota of the default namespace"
c_quota ==
    <<"r","e","s","o","u","r","c","e"," ","q","u","o","t","a"," ","o","f"," ","t","h","e"," ","d","e","f","a","u","l","t"," ","n","a","m","e","s","p","a","c","e">>
\* "pods that are Running"
c_running ==
    <<"p","o","d","s"," ","t","h","a","t"," ","a","r","e"," ","R","u","n","n","i","n","g">>
\* "pods with a label"
c_label ==
    <<"p","o","d","s"," ","w","i","t","h"," ","a"," ","l","a","b","e","l">>
\* "hello"
c_other ==
    <<"h","e","l","l","o">>
\* further fragments of classifier contents and raw queries (RouteSpec, ExtractSpec)
\* " "
f_space ==
    <<" ">>
\* "running"
f_running ==
    <<"r","u","n","n","i","n","g">>
\* "Pods"
f_Pods ==
    <<"P","o","d","s">>
\* "'"
f_quote ==
    <<"'">>
\* "\""
f_dquote ==
    <<"\"">>
\* "?"
f_question ==
    <<"?">>
\* "please"
f_please ==
    <<"p","l","e","a","s","e">>
\* " in the default namespace"
f_in_default ==
    <<" ","i","n"," ","t","h","e"," ","d","e","f","a","u","l","t"," ","n","a","m","e","s","p","a","c","e">>
\* "status of the "
f_status_of_the ==
    <<"s","t","a","t","u","s"," ","o","f"," ","t","h","e"," ">>
\* "pod named 'db' or "
f_or_db ==
    <<"p","o","d"," ","n","a","m","e","d"," ","'","d","b","'"," ","o","r"," ">>
\* " and pod named 'db'"
f_and_db ==
    <<" ","a","n","d"," ","p","o","d"," ","n","a","m","e","d"," ","'","d","b","'">>
\* "a b"
n_a_b ==
    <<"a"," ","b">>
\* "?x"
n_qx ==
    <<"?","x">>
\* answers named by the statements
\* "Pod 'web-1' not found in the default namespace."
x_pod_web1_not_found ==
    <<"P","o","d"," ","'","w","e","b","-","1","'"," ","n","o","t"," ","f","o","u","n","d"," ","i","n"," ","t","h","e"," ","d","e","f","a","u","l","t"," ","n","a","m","e","s","p","a","c","e",".">>
\* "not provided"
x_not_provided ==
    <<"n","o","t"," ","p","r","o","v","i","d","e","d">>
\* "Query not recognized."
x_query_not_recognized ==
    <<"Q","u","e","r","y"," ","n","o","t"," ","r","e","c","o","g","n","i","z","e","d",".">>
\* "Pod"
x_Pod ==
    <<"P","o","d">>
\* "Deployment"
x_Deployment ==
    <<"D","e","p","l","o","y","m","e","n","t">>
\* " '"
x_sp_quote ==
    <<" ","'">>
\* "' not found in the default namespace."
x_not_found_tail ==
    <<"'"," ","n","o","t"," ","f","o","u","n","d"," ","i","n"," ","t","h","e"," ","d","e","f","a","u","l","t"," ","n","a","m","e","s","p","a","c","e",".">>
\* "Could not fetch logs for pod '"
x_could_not_fetch ==
    <<"C","o","u","l","d"," ","n","o","t"," ","f","e","t","c","h"," ","l","o","g","s"," ","f","o","r"," ","p","o","d"," ","'">>
\* "Could not describe deployment '"
x_could_not_describe ==
    <<"C","o","u","l","d"," ","n","o","t"," ","d","e","s","c","r","i","b","e"," ","d","e","p","l","o","y","m","e","n","t"," ","'">>
\* "'."
x_end ==
    <<"'",".">>

\* Characters removed by strip(" '\"?") (lines 76, 91, 101, 118).
StripChars ==
    {" ", "'", "\"", "?"}

\* Characters removed by str.strip() without argument (line 60).
Whitespace ==
    {" ", "\n", "\t"}

\* Python `sub in s` on strings.
Contains(sub, s) ==
    \E i \in 1..(Len(s) - Len(sub) + 1) : SubSeq(s, i, i + Len(sub) - 1) = sub

\* Python s.find(sub, start) with 1-based indices; 0 when there is none.
Find(s, sub, start) ==
    LET hits == {i \in start..(Len(s) - Len(sub) + 1) :
                    SubSeq(s, i, i + Len(sub) - 1) = sub}
    IN  IF hits = {} THEN 0
        ELSE CHOOSE i \in hits : \A j \in hits : i <= j

\* Python s.split(sep)[1]: the text between the first occurrence of sep and
\* the next one (or the end of s).  Only defined when sep occurs in s; the
\* callers test Contains first, which is where Python raises IndexError.
SplitPart1(s, sep) ==
    LET first == Find(s, sep, 1)
        from  == first + Len(sep)
        next  == Find(s, sep, from)
    IN  IF next = 0 THEN SubSeq(s, from, Len(s))
        ELSE SubSeq(s, from, next - 1)

\* Python s.strip(chars).
Strip(s, chars) ==
    LET keep == {i \in 1..Len(s) : s[i] \notin chars}
    IN  IF keep = {} THEN << >>
        ELSE LET lo == CHOOSE i \in keep : \A j \in keep : i <= j
                 hi == CHOOSE i \in keep : \A j \in keep : j <= i
             IN  SubSeq(s, lo, hi)

\* Python s[:n].
Take(s, n) ==
    SubSeq(s, 1, IF Len(s) < n THEN Len(s) ELSE n)

\* Python str(n) for a non-negative integer (the f-string's {len(...)}).
RECURSIVE ToStr(_)
ToStr(n) ==
    LET d == <<"0", "1", "2", "3", "4", "5", "6", "7", "8", "9">>
    IN  IF n < 10 THEN <<d[n + 1]>>
        ELSE ToStr(n \div 10) \o <<d[(n % 10) + 1]>>

\* Python sep.join(parts).
RECURSIVE Join(_, _)
Join(sep, parts) ==
    IF parts = << >> THEN << >>
    ELSE IF Len(parts) = 1 THEN parts[1]
    ELSE parts[1] \o sep \o Join(sep, Tail(parts))

\* Route with the "status of the pod" test moved above the "nodes" test.
RouteStatusBeforeNodes(a) ==
    IF Contains(s_pods, a) /\ Contains(s_default_namespace, a)
        THEN "ListPodsInNamespace"
    ELSE IF Contains(s_status_of_the_pod, a) THEN "PodStatus"
    ELSE IF Contains(s_nodes, a) THEN "ListNodes"
    ELSE IF Contains(s_deployments, a) /\ Contains(s_default_namespace, a)
        THEN "ListDeployments"
    ELSE IF Contains(s_services, a) /\ Contains(s_default_namespace, a)
        THEN "ListServices"
    ELSE IF Contains(s_logs_of_the_pod, a) THEN "PodLogs"
    ELSE IF Contains(s_namespaces, a) THEN "ListNamespaces"
    ELSE IF Contains(s_describe_the_deployment, a) THEN "DescribeDeployment"
    ELSE IF Contains(s_names_of_the_nodes, a) THEN "ListNodeNames"
    ELSE IF Contains(s_resource_quota, a) /\ Contains(s_default_namespace, a)
        THEN "ResourceQuota"
    ELSE IF Contains(s_pods, a) /\ Contains(s_Running, a) THEN "ListRunningPods"
    ELSE IF Contains(s_pods, a) /\ Contains(s_label, a) THEN "ListPodsByLabel"
    ELSE "Unrecognized"

\* The if/elif chain of lines 68-117 as the operation it selects.
Route(a) ==
    IF Contains(s_pods, a) /\ Contains(s_default_namespace, a)
        THEN "ListPodsInNamespace"
    ELSE IF Contains(s_nodes, a) THEN "ListNodes"
    ELSE IF Contains(s_status_of_the_pod, a) THEN "PodStatus"
    ELSE IF Contains(s_deployments, a) /\ Contains(s_default_namespace, a)
        THEN "ListDeployments"
    ELSE IF Contains(s_services, a) /\ Contains(s_default_namespace, a)
        THEN "ListServices"
    ELSE IF Contains(s_logs_of_the_pod, a) THEN "PodLogs"
    ELSE IF Contains(s_namespaces, a) THEN "ListNamespaces"
    ELSE IF Contains(s_describe_the_deployment, a) THEN "DescribeDeployment"
    ELSE IF Contains(s_names_of_the_nodes, a) THEN "ListNodeNames"
    ELSE IF Contains(s_resource_quota, a) /\ Contains(s_default_namespace, a)
        THEN "ResourceQuota"
    ELSE IF Contains(s_pods, a) /\ Contains(s_Running, a) THEN "ListRunningPods"
    ELSE IF Contains(s_pods, a) /\ Contains(s_label, a) THEN "ListPodsByLabel"
    ELSE "Unrecognized"

\* ------------------------------------------------------------------------
\* Bounds of the model.

\* Longest item list a cluster list call returns.
MaxItems ==
    2

\* Number of fragments concatenated into a classifier content (RouteSpec).
MaxFrags ==
    3

\* Number of fragments that follow the quoted name in a raw query
\* (ExtractSpec).
MaxTail ==
    2

\* ------------------------------------------------------------------------
\* Program constants.

\* logs[:200] (line 93).
LogLimit ==
    200

\* HTTP status of the three failed responses (lines 47, 64, 130) and of a
\* jsonify response returned without a status (line 126).
StatusClientUnavailable ==
    500

StatusClassifierFailure ==
    500

StatusUnexpected ==
    500

StatusOk ==
    200

\* Status of the ApiException that reports a missing entity.
NotFound ==
    404

\* ------------------------------------------------------------------------
\* Per-operation tables read off the branches of lines 68-120.

\* Branches that extract a name or selector from the raw query.
NeedsParam(o) ==
    o \in {"PodStatus", "PodLogs", "DescribeDeployment", "ListPodsByLabel"}

\* The split marker of each extracting branch.
Marker(o) ==
    CASE o = "PodStatus" -> m_pod_named
      [] o = "PodLogs" -> m_pod_named
      [] o = "DescribeDeployment" -> m_deployment_named
      [] o = "ListPodsByLabel" -> m_label

\* Extract with a strip set that lacks the question mark.
ExtractKeepsQuestionMark(q, marker) ==
    Strip(SplitPart1(q, marker), {" ", "'", "\""})

\* query.split(marker)[1].strip(" '\"?")
Extract(q, marker) ==
    Strip(SplitPart1(q, marker), StripChars)

\* Branches whose try has an `except IndexError` clause (only line 79).
CatchesIndexError(o) ==
    o = "PodStatus"

\* CatchesApiException with the clause present in the PodStatus branch only.
CatchesApiExceptionPodStatusOnly(o) ==
    o = "PodStatus"

\* Branches whose try has an `except client.exceptions.ApiException` clause
\* (lines 81, 94, 104).
CatchesApiException(o) ==
    o \in {"PodStatus", "PodLogs", "DescribeDeployment"}

\* The client method each branch calls.
ApiOf(o) ==
    CASE o = "ListPodsInNamespace" -> "list_namespaced_pod"
      [] o = "ListNodes" -> "list_node"
      [] o = "PodStatus" -> "read_namespaced_pod"
      [] o = "ListDeployments" -> "list_namespaced_deployment"
      [] o = "ListServices" -> "list_namespaced_service"
      [] o = "PodLogs" -> "read_namespaced_pod_log"
      [] o = "ListNamespaces" -> "list_namespace"
      [] o = "DescribeDeployment" -> "read_namespaced_deployment"
      [] o = "ListNodeNames" -> "list_node"
      [] o = "ResourceQuota" -> "list_namespaced_resource_quota"
      [] o = "ListRunningPods" -> "list_namespaced_pod"
      [] o = "ListPodsByLabel" -> "list_namespaced_pod"

\* The answer of the `except ApiException` clauses (lines 82, 95, 105).
ApiExceptionAnswer(o, name) ==
    CASE o = "PodStatus" -> a_pod \o name \o a_not_found_in_default
      [] o = "PodLogs" -> a_could_not_fetch_logs \o name \o a_quote_dot
      [] o = "DescribeDeployment" -> a_could_not_describe \o name \o a_quote_dot

\* ------------------------------------------------------------------------
\* What the cluster client returns.

Items ==
    {[name |-> n_web1, phase |-> s_Running, hard |-> h_cpu],
     [name |-> n_db, phase |-> p_Pending, hard |-> h_cpu]}

ItemLists ==
    UNION {[1..k -> Items] : k \in 0..MaxItems}

Deployments ==
    {[replicas |-> 1, strategy |-> t_RollingUpdate],
     [replicas |-> 12, strategy |-> t_Recreate]}

LongLog ==
    [i \in 1..(LogLimit + 3) |-> "x"]

Logs ==
    {<< >>, l_started, LongLog}

\* The values a successful call of method api can return.
Results(api) ==
    CASE api = "read_namespaced_pod" -> Items
      [] api = "read_namespaced_pod_log" -> Logs
      [] api = "read_namespaced_deployment" -> Deployments
      [] OTHER -> ItemLists

\* len([pod for pod in pods.items if pod.status.phase == "Running"])
RunningCount(items) ==
    Cardinality({i \in DOMAIN items : items[i].phase = s_Running})

\* The answer each branch formats from the value r its call returned.
Format(o, name, r) ==
    CASE o = "ListPodsInNamespace" ->
            a_there_are \o ToStr(Len(r)) \o a_pods_in_default
      [] o = "ListNodes" ->
            a_there_are \o ToStr(Len(r)) \o a_nodes_in_cluster
      [] o = "PodStatus" ->
            a_status_of_pod \o name \o a_is \o r.phase \o a_dot
      [] o = "ListDeployments" ->
            a_there_are \o ToStr(Len(r)) \o a_deployments_in_default
      [] o = "ListServices" ->
            a_there_are \o ToStr(Len(r)) \o a_services_in_default
      [] o = "PodLogs" ->
            a_logs_for_pod \o name \o a_colon_nl \o Take(r, LogLimit)
                \o a_ellipsis
      [] o = "ListNamespaces" ->
            a_there_are \o ToStr(Len(r)) \o a_namespaces_in_cluster
      [] o = "DescribeDeployment" ->
            a_deployment \o name \o a_replicas \o ToStr(r.replicas)
                \o a_strategy \o r.strategy
      [] o = "ListNodeNames" ->
            a_nodes_list \o Join(a_comma_space, [i \in DOMAIN r |-> r[i].name])
      [] o = "ResourceQuota" ->
            IF r # << >> THEN a_quota_for_default \o r[1].hard ELSE a_no_quota
      [] o = "ListRunningPods" ->
            a_there_are \o ToStr(RunningCount(r)) \o a_running_pods
      [] o = "ListPodsByLabel" ->
            a_there_are \o ToStr(Len(r)) \o a_pods_with_label \o name
                \o a_in_default

\* ------------------------------------------------------------------------
\* Inputs of a request.

\* Raw queries carried by a JSON object body.
Queries ==
    {q_status_web1, q_pod_named_only, q_pod_named_quotes, q_web1_please,
     q_which_pods, q_deployment_api, q_deployment_blank, q_label_app,
     q_label_blank}

\* Request bodies: a body that is not a JSON object (request.json is None, a
\* list, a string, or parsing it raises), an object without "query", an
\* object with a query string.  A "query" that is not a string is rejected by
\* the classifier call and is not distinguished from a classifier failure.
Bodies ==
    {[kind |-> "nonobject", query |-> << >>], [kind |-> "noquery", query |-> << >>]}
        \cup {[kind |-> "query", query |-> q] : q \in Queries}

\* Contents of the classifier's reply, before .strip().
Contents ==
    {c_pods_default, c_names_of_nodes, s_nodes, c_status, c_deployments,
     c_services, c_logs, c_namespaces, c_describe, c_quota, c_running,
     c_label, c_other}

\* Outcomes of openai.ChatCompletion.create and of reading its reply
\* (lines 51-60): the call raises an OpenAIError, the call raises another
\* exception, the reply lacks choices[0].message.content or it is not a
\* string, or the reply carries a content string.
ClassifierOutcomes ==
    {[kind |-> k, content |-> << >>] :
        k \in {"openai_error", "other_error", "bad_shape"}}
        \cup {[kind |-> "ok", content |-> c] : c \in Contents}

\* Statuses an ApiException of the cluster client carries: the entity is
\* missing, the caller is forbidden, the server failed.
ApiStatuses ==
    {NotFound, 403, 500}

\* ------------------------------------------------------------------------
\* State.

VARIABLES
    v1,              \* CoreV1Api client, or "None" (lines 26, 30)
    apps_v1,         \* AppsV1Api client, or "None" (lines 27, 31)
    pc,              \* position of the handler
    body,            \* kind of the request body being served
    query,           \* line 41
    gpt_analysis,    \* line 60
    op,              \* branch of lines 68-117 taken
    param,           \* pod_name / deployment_name / label
    answer,          \* line 67 and the branches' assignments
    response,        \* what the handler returned
    responses,       \* number of responses returned for the request
    classifierCalls, \* calls of openai.ChatCompletion.create in the request
    classified,      \* outcome of the classification step
    clusterCalls,    \* calls of a cluster client method in the request
    call,            \* the cluster call made: method and name argument
    clusterOutcome,  \* outcome of the cluster call
    sent             \* failed responses returned so far, by return statement

vars ==
    <<v1, apps_v1, pc, body, query, gpt_analysis, op, param, answer, response,
      responses, classifierCalls, classified, clusterCalls, call,
      clusterOutcome, sent>>

NoResponse ==
    [status |-> 0, error |-> "", query |-> << >>, answer |-> << >>]

NoCall ==
    [api |-> "none", name |-> << >>, named |-> FALSE]

NoOutcome ==
    [kind |-> "none", status |-> 0]

\* jsonify({"error": ...}), 500 of lines 47, 64 and 130.
ErrClientUnavailable ==
    [status |-> StatusClientUnavailable,
     error |-> "Kubernetes client not initialized",
     query |-> << >>, answer |-> << >>]

ErrClassifierFailure ==
    [status |-> StatusClassifierFailure,
     error |-> "OpenAI API error occurred",
     query |-> << >>, answer |-> << >>]

\* ErrUnexpected carrying the message of the classifier failure.
ErrUnexpectedSameMessage ==
    [status |-> StatusUnexpected,
     error |-> "OpenAI API error occurred",
     query |-> << >>, answer |-> << >>]

ErrUnexpected ==
    [status |-> StatusUnexpected,
     error |-> "An unexpected error occurred",
     query |-> << >>, answer |-> << >>]

\* jsonify(QueryResponse(query=query, answer=answer).dict()) of lines 124-126.
Envelope(q, a) ==
    [status |-> StatusOk, error |-> "", query |-> q, answer |-> a]

\* ClientMissing with the test left out.
ClientCheckSkipped ==
    FALSE

\* `v1 is None or apps_v1 is None` (line 45).
ClientMissing ==
    v1 = "None" \/ apps_v1 = "None"

\* The except clause of the classification try (line 62) catches this outcome.
CaughtAsOpenAIError(kind) ==
    kind = "openai_error"

\* Lines 24-31: both clients are created, or both are None.
ClientsAfterLoad(loaded) ==
    IF loaded THEN [v1 |-> "CoreV1Api", apps_v1 |-> "AppsV1Api"]
    ELSE [v1 |-> "None", apps_v1 |-> "None"]

\* The state of a handler that has not read anything yet.
Fresh ==
    /\ body = "none"
    /\ query = << >>
    /\ gpt_analysis = << >>
    /\ op = "none"
    /\ param = << >>
    /\ answer = << >>
    /\ response = NoResponse
    /\ responses = 0
    /\ classifierCalls = 0
    /\ classified = "none"
    /\ clusterCalls = 0
    /\ call = NoCall
    /\ clusterOutcome = NoOutcome

Init ==
    /\ \E loaded \in BOOLEAN :
          /\ v1 = ClientsAfterLoad(loaded).v1
          /\ apps_v1 = ClientsAfterLoad(loaded).apps_v1
    /\ pc = "idle"
    /\ Fresh
    /\ sent = {}

\* A return of a failed response: `site` names the return statement.
Fail(site, r) ==
    /\ response' = r
    /\ responses' = responses + 1
    /\ sent' = sent \cup {[site |-> site, status |-> r.status, error |-> r.error]}
    /\ pc' = "done"

\* Process start (lines 24-31); a restart runs it again.
Start ==
    /\ pc \in {"idle", "done"}
    /\ \E loaded \in BOOLEAN :
          /\ v1' = ClientsAfterLoad(loaded).v1
          /\ apps_v1' = ClientsAfterLoad(loaded).apps_v1
    /\ pc' = "idle"
    /\ body' = "none"
    /\ query' = << >>
    /\ gpt_analysis' = << >>
    /\ op' = "none"
    /\ param' = << >>
    /\ answer' = << >>
    /\ response' = NoResponse
    /\ responses' = 0
    /\ classifierCalls' = 0
    /\ classified' = "none"
    /\ clusterCalls' = 0
    /\ call' = NoCall
    /\ clusterOutcome' = NoOutcome
    /\ UNCHANGED sent

\* Lines 40-47: read the body, take the query, check the clients.
Receive(b) ==
    /\ pc \in {"idle", "done"}
    /\ body' = b.kind
    /\ gpt_analysis' = << >>
    /\ op' = "none"
    /\ param' = << >>
    /\ answer' = << >>
    /\ classifierCalls' = 0
    /\ classified' = "none"
    /\ clusterCalls' = 0
    /\ call' = NoCall
    /\ clusterOutcome' = NoOutcome
    /\ UNCHANGED <<v1, apps_v1>>
    /\ IF b.kind = "nonobject"
          THEN \* request.json raises, or request_data has no .get (line 130)
               /\ query' = << >>
               /\ response' = ErrUnexpected
               /\ responses' = 1
               /\ sent' = sent \cup {[site |-> "unexpected",
                                      status |-> ErrUnexpected.status,
                                      error |-> ErrUnexpected.error]}
               /\ pc' = "done"
          ELSE /\ query' = b.query
               /\ IF ClientMissing
                     THEN /\ response' = ErrClientUnavailable
                          /\ responses' = 1
                          /\ sent' = sent \cup
                                {[site |-> "client",
                                  status |-> ErrClientUnavailable.status,
                                  error |-> ErrClientUnavailable.error]}
                          /\ pc' = "done"
                     ELSE /\ response' = NoResponse
                          /\ responses' = 0
                          /\ pc' = "classify"
                          /\ UNCHANGED sent

\* Lines 50-64: the classification call and the reading of its reply.
Classify(o) ==
    /\ pc = "classify"
    /\ classifierCalls' = classifierCalls + 1
    /\ classified' = o.kind
    /\ UNCHANGED <<v1, apps_v1, body, query, op, param, answer, clusterCalls,
                   call, clusterOutcome>>
    /\ IF o.kind = "ok"
          THEN /\ gpt_analysis' = Strip(o.content, Whitespace)
               /\ pc' = "route"
               /\ UNCHANGED <<response, responses, sent>>
          ELSE /\ UNCHANGED gpt_analysis
               /\ IF CaughtAsOpenAIError(o.kind)
                     THEN Fail("classifier", ErrClassifierFailure)
                     ELSE Fail("unexpected", ErrUnexpected)

\* Lines 67-118 up to the cluster call: take the first branch whose test
\* holds and, in the extracting branches, split the name out of the query.
Dispatch ==
    /\ pc = "route"
    /\ LET o == Route(gpt_analysis)
       IN  /\ op' = o
           /\ IF o = "Unrecognized"
                 THEN /\ answer' = a_not_recognized
                      /\ pc' = "respond"
                      /\ UNCHANGED <<param, response, responses, sent>>
              ELSE IF NeedsParam(o) /\ ~Contains(Marker(o), query)
                 THEN \* split(...)[1] raises IndexError
                      IF CatchesIndexError(o)
                         THEN /\ answer' = a_pod_name_not_provided
                              /\ pc' = "respond"
                              /\ UNCHANGED <<param, response, responses, sent>>
                         ELSE /\ answer' = a_not_recognized
                              /\ UNCHANGED param
                              /\ Fail("unexpected", ErrUnexpected)
              ELSE /\ answer' = a_not_recognized
                   /\ param' = IF NeedsParam(o) THEN Extract(query, Marker(o))
                               ELSE << >>
                   /\ pc' = "call"
                   /\ UNCHANGED <<response, responses, sent>>
    /\ UNCHANGED <<v1, apps_v1, body, query, gpt_analysis, classifierCalls,
                   classified, clusterCalls, call, clusterOutcome>>

\* ClusterCall with a call that raised another exception made once more.
ClusterCallRetried ==
    /\ pc = "call"
    /\ clusterCalls' = clusterCalls + 1
    /\ call' = [api |-> ApiOf(op), name |-> param, named |-> NeedsParam(op)]
    /\ UNCHANGED <<v1, apps_v1, body, query, gpt_analysis, op, param,
                   classifierCalls, classified>>
    /\ \/ \E r \in Results(ApiOf(op)) :
             /\ clusterOutcome' = [kind |-> "ok", status |-> StatusOk]
             /\ answer' = Format(op, param, r)
             /\ pc' = "respond"
             /\ UNCHANGED <<response, responses, sent>>
       \/ \E s \in ApiStatuses :
             /\ clusterOutcome' = [kind |-> "api_exception", status |-> s]
             /\ IF CatchesApiException(op)
                   THEN /\ answer' = ApiExceptionAnswer(op, param)
                        /\ pc' = "respond"
                        /\ UNCHANGED <<response, responses, sent>>
                   ELSE /\ UNCHANGED answer
                        /\ Fail("unexpected", ErrUnexpected)
       \/ /\ clusterOutcome' = [kind |-> "other_error", status |-> 0]
          /\ UNCHANGED answer
          /\ IF clusterCalls = 0
                THEN UNCHANGED <<pc, response, responses, sent>>
                ELSE Fail("unexpected", ErrUnexpected)

\* The cluster call of the branch and what follows it in the branch.
ClusterCall ==
    /\ pc = "call"
    /\ clusterCalls' = clusterCalls + 1
    /\ call' = [api |-> ApiOf(op), name |-> param, named |-> NeedsParam(op)]
    /\ UNCHANGED <<v1, apps_v1, body, query, gpt_analysis, op, param,
                   classifierCalls, classified>>
    /\ \/ \E r \in Results(ApiOf(op)) :
             /\ clusterOutcome' = [kind |-> "ok", status |-> StatusOk]
             /\ answer' = Format(op, param, r)
             /\ pc' = "respond"
             /\ UNCHANGED <<response, responses, sent>>
       \/ \E s \in ApiStatuses :
             /\ clusterOutcome' = [kind |-> "api_exception", status |-> s]
             /\ IF CatchesApiException(op)
                   THEN /\ answer' = ApiExceptionAnswer(op, param)
                        /\ pc' = "respond"
                        /\ UNCHANGED <<response, responses, sent>>
                   ELSE /\ UNCHANGED answer
                        /\ Fail("unexpected", ErrUnexpected)
       \/ /\ clusterOutcome' = [kind |-> "other_error", status |-> 0]
          /\ UNCHANGED answer
          /\ Fail("unexpected", ErrUnexpected)

\* Lines 123-126: build the envelope and return it (after the fixed sleep).
Respond ==
    /\ pc = "respond"
    /\ response' = Envelope(query, answer)
    /\ responses' = responses + 1
    /\ pc' = "done"
    /\ UNCHANGED <<v1, apps_v1, body, query, gpt_analysis, op, param, answer,
                   classifierCalls, classified, clusterCalls, call,
                   clusterOutcome, sent>>

Step ==
    \/ \E o \in ClassifierOutcomes : Classify(o)
    \/ Dispatch
    \/ ClusterCall
    \/ Respond

Next ==
    \/ Start
    \/ \E b \in Bodies : Receive(b)
    \/ Step

Spec ==
    Init /\ [][Next]_vars

\* ------------------------------------------------------------------------
\* The routing step on its own: the handler right after a successful
\* classification, for classifier contents built from the substrings the
\* rules test.

ContentFragments ==
    {s_pods, s_default_namespace, s_nodes, s_status_of_the_pod, s_deployments,
     s_services, s_logs_of_the_pod, s_namespaces, s_describe_the_deployment,
     s_names_of_the_nodes, s_resource_quota, s_Running, s_label,
     f_space, f_running, f_Pods}

\* Concatenations of at most k elements of the set frags.
RECURSIVE Concats(_, _)
Concats(frags, k) ==
    IF k = 0 THEN {<< >>}
    ELSE LET shorter == Concats(frags, k - 1)
         IN  shorter \cup {p \o f : p \in shorter, f \in frags}

\* The handler's state after Receive of an object body with query q and a
\* classification that returned content c (lines 40-61).
AfterClassify(q, c) ==
    /\ v1 = ClientsAfterLoad(TRUE).v1
    /\ apps_v1 = ClientsAfterLoad(TRUE).apps_v1
    /\ pc = "route"
    /\ body = "query"
    /\ query = q
    /\ gpt_analysis = Strip(c, Whitespace)
    /\ op = "none"
    /\ param = << >>
    /\ answer = << >>
    /\ response = NoResponse
    /\ responses = 0
    /\ classifierCalls = 1
    /\ classified = "ok"
    /\ clusterCalls = 0
    /\ call = NoCall
    /\ clusterOutcome = NoOutcome
    /\ sent = {}

InitRoute ==
    \E c \in Concats(ContentFragments, MaxFrags) :
        AfterClassify(q_status_web1, c)

RouteSpec ==
    InitRoute /\ [][Dispatch]_vars

\* ------------------------------------------------------------------------
\* The extraction step on its own: raw queries that carry a quoted pod name
\* after the marker, with text before and after it, routed to PodStatus or
\* PodLogs.

QueryPrefixes ==
    {<< >>, f_status_of_the, f_or_db}

QuotedNames ==
    {n_web1, n_db, n_a_b, n_qx}

TailFragments ==
    {f_question, f_space, f_quote, f_dquote, f_please, f_in_default, f_and_db}

InitExtract ==
    \E pre \in QueryPrefixes, x \in QuotedNames,
       tail \in Concats(TailFragments, MaxTail), c \in {c_status, c_logs} :
        AfterClassify(pre \o m_pod_named \o f_quote \o x \o f_quote \o tail, c)

ExtractSpec ==
    InitExtract /\ [][Dispatch]_vars

\* ------------------------------------------------------------------------
\* Routing (C1).

\* The ordered rule table of the specification (section 4.1).
RuleTable ==
    << [subs |-> {s_pods, s_default_namespace}, op |-> "ListPodsInNamespace"],
       [subs |-> {s_nodes}, op |-> "ListNodes"],
       [subs |-> {s_status_of_the_pod}, op |-> "PodStatus"],
       [subs |-> {s_deployments, s_default_namespace}, op |-> "ListDeployments"],
       [subs |-> {s_services, s_default_namespace}, op |-> "ListServices"],
       [subs |-> {s_logs_of_the_pod}, op |-> "PodLogs"],
       [subs |-> {s_namespaces}, op |-> "ListNamespaces"],
       [subs |-> {s_describe_the_deployment}, op |-> "DescribeDeployment"],
       [subs |-> {s_names_of_the_nodes}, op |-> "ListNodeNames"],
       [subs |-> {s_resource_quota, s_default_namespace}, op |-> "ResourceQuota"],
       [subs |-> {s_pods, s_Running}, op |-> "ListRunningPods"],
       [subs |-> {s_pods, s_label}, op |-> "ListPodsByLabel"] >>

RuleMatches(i, a) ==
    \A s \in RuleTable[i].subs : Contains(s, a)

\* The operation of the lowest-numbered matching rule, or Unrecognized.
FirstMatch(a) ==
    LET hits == {i \in DOMAIN RuleTable : RuleMatches(i, a)}
    IN  IF hits = {} THEN "Unrecognized"
        ELSE RuleTable[CHOOSE i \in hits : \A j \in hits : i <= j].op

\* C1: once the handler has routed, the operation it selected is the one of
\* the lowest-numbered rule of the table whose substrings all occur in the
\* analysis text, and Unrecognized with the answer "Query not recognized."
\* when no rule matches; an analysis text that contains "nodes" and not both
\* "pods" and "default namespace" selects ListNodes, and ListNodeNames is
\* never selected.
C1_FirstMatchRouting ==
    op # "none" =>
        /\ op = FirstMatch(gpt_analysis)
        /\ (\A i \in DOMAIN RuleTable : ~RuleMatches(i, gpt_analysis)) =>
              (op = "Unrecognized" /\ answer = x_query_not_recognized)
        /\ ( /\ Contains(s_nodes, gpt_analysis)
             /\ ~(Contains(s_pods, gpt_analysis)
                    /\ Contains(s_default_namespace, gpt_analysis)) ) =>
              op = "ListNodes"
        /\ op # "ListNodeNames"

\* An analysis text with "names of the nodes" has been routed to ListNodes.
C1_Witness ==
    /\ op = "ListNodes"
    /\ Contains(s_names_of_the_nodes, gpt_analysis)

\* ------------------------------------------------------------------------
\* Parameter extraction (C9).

\* q contains `pod named 'x'`.
HasQuotedName(q, x) ==
    Contains(m_pod_named \o f_quote \o x \o f_quote, q)

\* q is: text without the marker, then `pod named 'x'`, then nothing but
\* quote, space and question-mark characters.
EndsWithQuotedName(q, x) ==
    LET first == Find(q, m_pod_named, 1)
        rest  == SubSeq(q, first + Len(m_pod_named), Len(q))
        quoted == f_quote \o x \o f_quote
    IN  /\ first # 0
        /\ Len(rest) >= Len(quoted)
        /\ SubSeq(rest, 1, Len(quoted)) = quoted
        /\ \A i \in (Len(quoted) + 1)..Len(rest) : rest[i] \in StripChars

\* x is not changed by the strip and is not cut by the split.
PlainName(x) ==
    /\ x # << >>
    /\ x[1] \notin StripChars
    /\ x[Len(x)] \notin StripChars
    /\ ~Contains(m_pod_named, x)

Extracted ==
    pc = "call" /\ op \in {"PodStatus", "PodLogs"}

\* C9 as stated: for every raw query that contains `pod named 'X'`, at any
\* position and with any text before or after it, the parameter extracted for
\* PodStatus and PodLogs is exactly X.
C9_AnyPosition ==
    Extracted => \A x \in QuotedNames : HasQuotedName(query, x) => param = x

\* C9, amended: when the first "pod named " of the raw query is followed by
\* 'X' and then only by quote, space and question-mark characters, and X
\* neither begins nor ends with such a character nor contains the marker,
\* the parameter extracted for PodStatus and PodLogs is exactly X.
C9_NameAtEnd ==
    Extracted =>
        \A x \in QuotedNames :
            (PlainName(x) /\ EndsWithQuotedName(query, x)) => param = x

\* A query with text before the marker and a question mark after the quoted
\* name has had web-1 extracted from it.
C9_Witness ==
    /\ Extracted
    /\ EndsWithQuotedName(query, n_web1)
    /\ Find(query, m_pod_named, 1) > 1
    /\ query[Len(query)] = "?"
    /\ param = n_web1

\* ------------------------------------------------------------------------
\* The request pipeline (C2-C8, C10).

\* The handler has returned for the request it was serving.
Done ==
    pc = "done"

\* The response is a success envelope {query, answer}.
IsEnvelope(r) ==
    r.status = StatusOk /\ r.error = "" /\ r.query = query

\* The response is a failed response {error}.
IsFailure(r) ==
    r.status # StatusOk /\ r.error # ""

\* The raw query lacks the marker phrase of the operation the request was
\* routed to.
MarkerAbsent ==
    NeedsParam(op) /\ ~Contains(Marker(op), query)

\* The cluster client failed to initialize at process start.
ClientsFailedToLoad ==
    v1 = "None" \/ apps_v1 = "None"

\* C2 as stated: with the cluster client missing, every request ends with
\* the ClientUnavailable failure, and neither the classifier nor the cluster
\* is called.
C2_AlwaysClientUnavailable ==
    (ClientsFailedToLoad /\ Done) =>
        /\ response = ErrClientUnavailable
        /\ classifierCalls = 0
        /\ clusterCalls = 0

\* C2, amended: with the cluster client missing, every request whose body is
\* a JSON object ends with the ClientUnavailable failure (a body that is not
\* a JSON object ends with the unexpected-error failure), and in no request
\* is the classifier called or a cluster call made.
C2_ClientUnavailable ==
    ClientsFailedToLoad =>
        /\ pc \in {"idle", "done"}
        /\ classifierCalls = 0
        /\ clusterCalls = 0
        /\ call = NoCall
        /\ Done =>
              /\ responses = 1
              /\ body # "nonobject" =>
                    ( /\ response.status = StatusClientUnavailable
                      /\ response.error = "Kubernetes client not initialized" )
              /\ body = "nonobject" =>
                    response.error = "An unexpected error occurred"

\* A request with a query has been answered ClientUnavailable.
C2_Witness ==
    /\ ClientsFailedToLoad
    /\ Done
    /\ body = "query"
    /\ query = q_status_web1
    /\ response.error = "Kubernetes client not initialized"

\* C3: a request routed to PodStatus, PodLogs, DescribeDeployment or
\* ListPodsByLabel whose raw query lacks the marker phrase ends with a
\* success envelope whose answer says the name was not provided, never with a
\* failed response.
C3_MissingParameterAnswered ==
    (Done /\ MarkerAbsent) =>
        /\ IsEnvelope(response)
        /\ Contains(x_not_provided, response.answer)

\* The cluster client reported the named entity as not found.
ReportedNotFound ==
    /\ Done
    /\ op \in {"PodStatus", "PodLogs", "DescribeDeployment"}
    /\ clusterOutcome = [kind |-> "api_exception", status |-> NotFound]

\* "<Entity> '{name}' not found in the default namespace."
NotFoundTemplate(o, name) ==
    (IF o = "DescribeDeployment" THEN x_Deployment ELSE x_Pod)
        \o x_sp_quote \o name \o x_not_found_tail

\* C4 as stated: for PodStatus, PodLogs and DescribeDeployment a not-found
\* report ends the request with a success envelope whose answer is
\* "<Entity> '{name}' not found in the default namespace.".
C4_NotFoundTemplate ==
    ReportedNotFound =>
        /\ IsEnvelope(response)
        /\ response.answer = NotFoundTemplate(op, param)

\* The answers of the three operations to a not-found report.
NotFoundAnswer(o, name) ==
    CASE o = "PodStatus" -> x_Pod \o x_sp_quote \o name \o x_not_found_tail
      [] o = "PodLogs" -> x_could_not_fetch \o name \o x_end
      [] o = "DescribeDeployment" -> x_could_not_describe \o name \o x_end

\* C4, amended: a not-found report ends the request with a success envelope,
\* never a failed response; its answer is "Pod '{name}' not found in the
\* default namespace." for PodStatus, "Could not fetch logs for pod
\* '{name}'." for PodLogs and "Could not describe deployment '{name}'." for
\* DescribeDeployment, with {name} the extracted name.
C4_NotFoundAnswered ==
    ReportedNotFound =>
        /\ IsEnvelope(response)
        /\ response.answer = NotFoundAnswer(op, param)
        /\ param = Strip(SplitPart1(query, Marker(op)), StripChars)

\* PodStatus for web-1, reported not found, has been answered.
C4_Witness ==
    /\ ReportedNotFound
    /\ op = "PodStatus"
    /\ response.answer = x_pod_web1_not_found

\* C5: a cluster-call failure that is not a not-found report ends the
\* request with a failed response and no answer envelope, for every
\* operation.
C5_OtherFailuresTerminal ==
    ( /\ Done
      /\ \/ clusterOutcome.kind = "other_error"
         \/ clusterOutcome.kind = "api_exception"
              /\ clusterOutcome.status # NotFound ) =>
        /\ IsFailure(response)
        /\ response.answer = << >>

\* C6: a request routed to an operation that requires a parameter makes no
\* cluster call when the marker phrase is absent, and never makes a cluster
\* call with an absent or empty name or selector.
C6_NoCallWithoutParameter ==
    /\ MarkerAbsent => (clusterCalls = 0 /\ call = NoCall)
    /\ call.named => (Contains(Marker(op), query) /\ call.name # << >>)

\* C7: when the classification step fails, by the call raising or by its
\* reply not having the expected shape, the request ends with the
\* classifier-failure result, no cluster call is made and no answer is
\* formatted.
C7_ClassifierFailure ==
    (Done /\ classified \in {"openai_error", "other_error", "bad_shape"}) =>
        /\ response = ErrClassifierFailure
        /\ response # ErrClientUnavailable
        /\ response # ErrUnexpected
        /\ clusterCalls = 0
        /\ answer = << >>

\* The failed responses returned so far cover the three return statements.
AllFailuresSeen ==
    {r.site : r \in sent} = {"client", "classifier", "unexpected"}

\* C8 as stated: no two of the three failure kinds carry the same error
\* code.
C8_DistinctCodes ==
    \A r1, r2 \in sent : r1.site # r2.site => r1.status # r2.status

\* C8, amended: the three failure kinds carry pairwise distinct error
\* messages, and all three carry the same status code, 500.
C8_DistinctMessages ==
    /\ \A r1, r2 \in sent : r1.site # r2.site => r1.error # r2.error
    /\ \A r \in sent : r.status = 500 /\ r.error # ""

C8_Witness ==
    AllFailuresSeen

\* The handler is serving a request and has not returned yet.
InFlight ==
    pc \in {"classify", "route", "call", "respond"}

\* How far the handler has got.
Rank ==
    CASE pc = "idle" -> 0
      [] pc = "classify" -> 1
      [] pc = "route" -> 2
      [] pc = "call" -> 3
      [] pc = "respond" -> 4
      [] pc = "done" -> 5

\* C10: every request ends with exactly one response (a handler that has not
\* returned can always take its next step, each step takes it further, and
\* it has returned exactly when one response was produced), after at most
\* one classifier call and at most one cluster call, the cluster call only
\* after the classifier call returned successfully.
C10_OneResponse ==
    /\ [](InFlight => ENABLED Step)
    /\ [][Step => Rank' > Rank]_vars
    /\ []( /\ responses <= 1
           /\ Done <=> responses = 1
           /\ Done => (IsEnvelope(response) \/ IsFailure(response))
           /\ classifierCalls <= 1
           /\ clusterCalls <= 1
           /\ clusterCalls = 1 => (classifierCalls = 1 /\ classified = "ok") )

\* A request has ended with an envelope after one classifier call and one
\* cluster call.
C10_Witness ==
    /\ Done
    /\ responses = 1
    /\ IsEnvelope(response)
    /\ classifierCalls = 1
    /\ clusterCalls = 1
=============================================================================
